---- MODULE Spec2Model ----
(***************************************************************************)
(* Model of the websocket session hub (session actor, ingress listener,    *)
(* subject matcher, session registry) and of the nats connection wrapper  *)
(* of CharlesBases/library.                                                *)
(***************************************************************************)
EXTENDS Integers, Sequences, FiniteSets, TLC

(***************************************************************************)
(* Bounds of the model.                                                    *)
(***************************************************************************)
ReqCap == 1
RespCap == 1
BcCap == 1
ClosingCapMax == 1
MaxParams == 2
MaxLen == 3
NProcs == 2
MaxFrames == 2
MaxSubFrames == 3
MaxEvents == 1
Heartbeat == 2
NClients == 2
MaxCalls == 3

(***************************************************************************)
(* Protocol constants: pb.Method values and the session ids in play.       *)
(***************************************************************************)
PING == 0
SUBSCRIBE == 1
UNSUBSCRIBE == 2
DISCONNECT == 3
BROADCAST == 4

SelfId == "s1"
OtherId == "s2"
GhostId == "s3"

StatusOK == 200
StatusBadRequest == 400

CloseNormalClosure == 1000
CloseNoStatusReceived == 1005
CloseAbnormalClosure == 1006

VARIABLES
    store,          \* pool.store: the set of registered session ids
    ready,          \* session.ready
    closed,         \* session.closed
    subscriptions,  \* session.subscriptions (the keys of the map)
    request,        \* session.request channel buffer
    response,       \* session.response channel buffer
    broadcast,      \* session.broadcast channel buffer
    chClosed,       \* closing/request/response/broadcast have been closed
    closingCap,     \* capacity of session.closing
    closingCnt,     \* tokens buffered in session.closing
    connOpen,       \* session.conn is open (not yet Close()d and nilled)
    once,           \* session.once has fired
    pcA,            \* position of the serve goroutine
    todoA,          \* channel sends the serve goroutine still has to do
    cur,            \* serve's local `request` while its handler runs
    pcL,            \* position of the listening goroutine
    todoL,          \* channel sends the listening goroutine still has to do
    thenL,          \* where listening goes after its sends: "top" or "done"
    panicked,       \* "none" or the runtime panic that ended the process
    teardowns,      \* how many times the disconnect body has run
    triggers,       \* how many times session.close() was called (capped at 2)
    frames,         \* how many requests the client has sent
    events,         \* how many events the station has pushed
    timer,          \* ticks since the current select armed time.After
    sincePing,      \* ticks since serve last handled a PING
    vPat, vTar, vRes, \* subject.verify: receiver, argument, result
    lk,             \* pool.lk: its readers and whether a writer holds it
    call,           \* the registry call each goroutine is in
    inMap,          \* the goroutines that are reading or writing pool.store
    poolFault,      \* a read or write of pool.store overlapped a write
    wire,           \* the responses serve has passed to session.conn.WriteJSON
    natsConn,       \* conn.natsConn: 0 for nil, else the dial that produced it
    natsJetStream,  \* conn.natsJetStream: 0 for nil, else the dial it belongs to
    status,         \* what natsConn.Status() reports
    nlock,          \* conn.lock: its readers and whether a writer holds it
    ncall,          \* the conn method each goroutine is in
    dials,          \* how many nats connections nopts.Connect() has opened
    ncalls          \* how many conn methods have been called

sessVars == <<store, ready, closed, subscriptions, request, response, broadcast,
              chClosed, closingCap, closingCnt, connOpen, once, pcA, todoA, cur,
              pcL, todoL, thenL, panicked, teardowns, triggers>>
envVars == <<frames, events>>
timeVars == <<timer, sincePing>>
fnVars == <<vPat, vTar, vRes>>
poolVars == <<lk, call, inMap, poolFault>>
hubVars == <<sessVars, envVars, timeVars, fnVars, poolVars, wire>>
natsVars == <<natsConn, natsJetStream, status, nlock, ncall, dials, ncalls>>
vars == <<sessVars, envVars, timeVars, fnVars, poolVars, wire, natsVars>>

(***************************************************************************)
(* Strings are sequences of one-character strings.                         *)
(***************************************************************************)
Alphabet == {"a", "b", "*"}
Star == <<"*">>

RECURSIVE StringsUpTo(_)
StringsUpTo(n) ==
    IF n = 0 THEN {<< >>}
    ELSE LET S == StringsUpTo(n - 1)
         IN  S \cup {Append(s, c) : s \in {x \in S : Len(x) = n - 1}, c \in Alphabet}

\* strings.HasSuffix
HasSuffix(s, suf) ==
    /\ Len(s) >= Len(suf)
    /\ SubSeq(s, Len(s) - Len(suf) + 1, Len(s)) = suf

\* strings.HasPrefix
HasPrefix(s, pre) ==
    /\ Len(s) >= Len(pre)
    /\ SubSeq(s, 1, Len(pre)) = pre

\* strings.TrimSuffix
TrimSuffix(s, suf) ==
    IF HasSuffix(s, suf) THEN SubSeq(s, 1, Len(s) - Len(suf)) ELSE s

\* subject.verify as it would be with the trailing '*' left in the prefix
verifyUntrimmed(sub, tar) ==
    IF sub = Star THEN TRUE
    ELSE IF sub = tar THEN TRUE
    ELSE IF HasSuffix(sub, Star) THEN HasPrefix(tar, sub)
    ELSE FALSE

\* subject.verify
verify(sub, tar) ==
    IF sub = Star THEN TRUE
    ELSE IF sub = tar THEN TRUE
    ELSE IF HasSuffix(sub, Star) THEN HasPrefix(tar, TrimSuffix(sub, Star))
    ELSE FALSE

(***************************************************************************)
(* Messages.                                                               *)
(***************************************************************************)
Patterns == {<<"a", "*">>, <<"a", "b">>}
Topics == {<<"a", "b">>, <<"b">>}
NoEvent == << >>

RECURSIVE ListsUpTo(_)
ListsUpTo(n) ==
    IF n = 0 THEN {<< >>}
    ELSE LET S == ListsUpTo(n - 1)
         IN  S \cup {Append(s, p) : s \in {x \in S : Len(x) = n - 1}, p \in Patterns}

\* WebSocketRequest.Params: absent, a JSON value that is no list of strings,
\* or a list of subjects.
NilParams == [kind |-> "nil", list |-> << >>]
BadParams == [kind |-> "bad", list |-> << >>]
ListParams(l) == [kind |-> "list", list |-> l]

\* WebSocketRequest
Request(id, method, params) == [id |-> id, method |-> method, params |-> params]

\* session.normal: the WebSocketResponse it sends
NormalResponse(method, topics, event) ==
    [code |-> StatusOK, message |-> "OK", method |-> method,
     topics |-> topics, event |-> event]

\* session.error: the WebSocketResponse it sends (Method keeps its zero value)
ErrorResponse(errMsg) ==
    [code |-> StatusBadRequest, message |-> errMsg, method |-> PING,
     topics |-> {}, event |-> NoEvent]

NoRequest == Request("", PING, NilParams)

\* A channel send a goroutine has to perform.
SendResponse(msg) == [op |-> "response", msg |-> msg, req |-> NoRequest]
SendRequest(req) == [op |-> "request", msg |-> ErrorResponse(""), req |-> req]
\* session.close, tagged with the reason of the call
SendClosing(why) == [op |-> "closing", msg |-> ErrorResponse(why), req |-> NoRequest]

\* json.Unmarshal(*params, &subjects) succeeds
Decodes(params) == params.kind = "list"

\* subscribe as it would be if the request's subjects replaced the set
AddOnly(subs, list) == {list[i] : i \in 1..Len(list)}

RECURSIVE AddAll(_, _)
\* subscribe: for _, subject := range subjects { subscriptions[subject] = true }
AddAll(subs, list) ==
    IF list = << >> THEN subs ELSE AddAll(subs \cup {Head(list)}, Tail(list))

RECURSIVE DeleteAll(_, _)
\* unsubscribe: for _, subject := range topics { delete(subscriptions, subject) }
DeleteAll(subs, list) ==
    IF list = << >> THEN subs ELSE DeleteAll(subs \ {Head(list)}, Tail(list))

\* session.event as it would be without the break after the first match
EventDeliveriesNoBreak(subs, subj) ==
    Cardinality({s \in subs : verify(s, subj)})

\* session.event: how many times the range loop calls session.normal
EventDeliveries(subs, subj) ==
    IF \E s \in subs : verify(s, subj) THEN 1 ELSE 0

\* pool.verifySession
verifySession(id) == id \in store

\* pool.createSession: the store once the fresh id is inserted
createSession(id) == store \cup {id}

\* pool.dropSession
dropSession(id) == store \ {id}

\* session.isCloseError
isCloseError(err) == IF err.closeError THEN err.code ELSE -1

ReadErrors ==
    {[closeError |-> TRUE, code |-> c] :
        c \in {CloseNormalClosure, CloseNoStatusReceived, CloseAbnormalClosure}}
    \cup {[closeError |-> FALSE, code |-> 0]}
\* ReadJSON on a connection this process has closed
LocalCloseError == [closeError |-> FALSE, code |-> 0]

Bump(n) == IF n < 2 THEN n + 1 ELSE 2

(***************************************************************************)
(* The serve goroutine (Session Actor).                                    *)
(***************************************************************************)
Alive == panicked = "none"

StartsClose(todo) == todo # << >> /\ Head(todo).op = "closing"

\* serve leaves a handler with the channel sends `todo` still to perform
ActorDo(r, todo) ==
    /\ todoA' = todo
    /\ cur' = IF todo = << >> THEN NoRequest ELSE r
    /\ pcA' = IF todo = << >> THEN "select" ELSE "send"
    /\ triggers' = IF StartsClose(todo) THEN Bump(triggers) ELSE triggers

\* session.ping
ping(r) ==
    IF ~closed
    THEN /\ ready' = TRUE
         /\ ActorDo(r, <<SendResponse(NormalResponse(PING, {}, NoEvent))>>)
    ELSE /\ ready' = ready
         /\ ActorDo(r, << >>)

\* session.subscribe
subscribe(r) ==
    IF ~Decodes(r.params)
    THEN /\ subscriptions' = subscriptions
         /\ ActorDo(r, <<SendResponse(ErrorResponse("decode")), SendClosing("decode")>>)
    ELSE LET subs == AddAll(subscriptions, r.params.list)
         IN  /\ subscriptions' = subs
             /\ ActorDo(r, <<SendResponse(NormalResponse(SUBSCRIBE, subs, NoEvent))>>)

\* session.unsubscribe
unsubscribe(r) ==
    IF ~Decodes(r.params)
    THEN /\ subscriptions' = subscriptions
         /\ ActorDo(r, <<SendResponse(ErrorResponse("decode")), SendClosing("decode")>>)
    ELSE LET subs == DeleteAll(subscriptions, r.params.list)
         IN  /\ subscriptions' = subs
             /\ ActorDo(r, <<SendResponse(NormalResponse(UNSUBSCRIBE, subs, NoEvent))>>)

\* the heartbeat case as it would be if it toggled session.ready
HeartbeatToggles == ready' = ~ready

\* serve, the body of case <-time.After(session.opts.heartbeat)
HeartbeatEffect == ready' = FALSE

\* the heartbeat case as it would be if a missed heartbeat closed the session
ActorTimeoutCloses(timed) ==
    /\ Alive /\ pcA = "select"
    /\ timed => timer >= Heartbeat
    /\ HeartbeatEffect
    /\ ActorDo(NoRequest, <<SendClosing("heartbeat")>>)
    /\ timer' = 0
    /\ UNCHANGED <<store, closed, subscriptions, request, response, broadcast,
                   chClosed, closingCap, closingCnt, connOpen, once,
                   pcL, todoL, thenL, panicked, teardowns,
                   sincePing, envVars, fnVars, poolVars, wire, natsVars>>

\* serve, case <-time.After(session.opts.heartbeat); `timed` says whether the
\* specification counts ticks
ActorTimeout(timed) ==
    /\ Alive /\ pcA = "select"
    /\ timed => timer >= Heartbeat
    /\ HeartbeatEffect
    /\ timer' = 0
    /\ UNCHANGED <<store, closed, subscriptions, request, response, broadcast,
                   chClosed, closingCap, closingCnt, connOpen, once, pcA, todoA, cur,
                   pcL, todoL, thenL, panicked, teardowns, triggers, 
                   sincePing, envVars, fnVars, wire, natsVars, poolVars>>

\* the default case as it would be if an unknown method closed the session
invalidMethodCloses(r) ==
    ActorDo(r, <<SendResponse(ErrorResponse("invalid method")),
                 SendClosing("invalid method")>>)

\* serve, the default case of switch request.Method
invalidMethod(r) ==
    ActorDo(r, <<SendResponse(ErrorResponse("invalid method"))>>)

\* serve, case request, ok := <-session.request
ActorRequest ==
    /\ Alive /\ pcA = "select"
    /\ request # << >>
    /\ LET r == Head(request)
       IN  /\ request' = Tail(request)
           /\ CASE r.method = PING ->
                     /\ ping(r)
                     /\ UNCHANGED subscriptions
                [] r.method = SUBSCRIBE ->
                     /\ subscribe(r)
                     /\ UNCHANGED ready
                [] r.method = UNSUBSCRIBE ->
                     /\ unsubscribe(r)
                     /\ UNCHANGED ready
                [] r.method = DISCONNECT ->
                     /\ ActorDo(r, <<SendClosing("DISCONNECT")>>)
                     /\ UNCHANGED <<ready, subscriptions>>
                [] OTHER ->
                     /\ invalidMethod(r)
                     /\ UNCHANGED <<ready, subscriptions>>
           /\ sincePing' = IF r.method = PING THEN 0 ELSE sincePing
    /\ timer' = 0
    /\ UNCHANGED <<store, closed, response, broadcast, chClosed, closingCap,
                   closingCnt, connOpen, once, pcL, todoL, thenL, panicked,
                   teardowns, envVars, fnVars, wire, natsVars, poolVars>>

\* session.write as it would be without the readiness test
writeAlways(v) == Append(wire, v)

\* session.write: the transport output once v has been handed to it
write(v) == IF ready THEN Append(wire, v) ELSE wire

\* serve, case response, ok := <-session.response
ActorResponse ==
    /\ Alive /\ pcA = "select"
    /\ response # << >>
    /\ response' = Tail(response)
    /\ wire' = write(Head(response))
    /\ timer' = 0
    /\ UNCHANGED <<store, ready, closed, subscriptions, request, broadcast,
                   chClosed, closingCap, closingCnt, connOpen, once, pcA, todoA, cur,
                   pcL, todoL, thenL, panicked, teardowns, triggers,
                   sincePing, envVars, fnVars, poolVars, natsVars>>

\* session.event
event(subj) ==
    IF ready
    THEN LET n == EventDeliveries(subscriptions, subj)
         IN  ActorDo(NoRequest,
                     IF n = 0 THEN << >>
                     ELSE [i \in 1..n |->
                             SendResponse(NormalResponse(BROADCAST, {}, subj))])
    ELSE ActorDo(NoRequest, << >>)

\* serve, case event, ok := <-session.broadcast
ActorBroadcast ==
    /\ Alive /\ pcA = "select"
    /\ broadcast # << >>
    /\ broadcast' = Tail(broadcast)
    /\ event(Head(broadcast))
    /\ timer' = 0
    /\ UNCHANGED <<store, ready, closed, subscriptions, request, response,
                   chClosed, closingCap, closingCnt, connOpen, once, pcL, todoL,
                   thenL, panicked, teardowns, sincePing, envVars, fnVars, wire, natsVars,
                   poolVars>>

\* listening is blocked in session.close with nobody buffering its token
ListenerOffersClosing == pcL = "send" /\ StartsClose(todoL) /\ closingCap = 0
\* serve is blocked in session.close with nobody buffering its token
ActorOffersClosing == pcA = "send" /\ StartsClose(todoA) /\ closingCap = 0

\* the remaining sends of listening once its head send has completed
ListenerAdvance ==
    /\ todoL' = Tail(todoL)
    /\ pcL' = IF Tail(todoL) = << >> THEN thenL ELSE "send"

\* the remaining sends of serve once its head send has completed
ActorAdvance ==
    /\ todoA' = Tail(todoA)
    /\ cur' = IF Tail(todoA) = << >> THEN NoRequest ELSE cur
    /\ pcA' = IF Tail(todoA) = << >> THEN "select" ELSE "send"

\* session.disconnect as it would be if it left session.ready alone
DisconnectHeadKeepsReady ==
    IF ~once
    THEN /\ once' = TRUE
         /\ ready' = ready
         /\ closed' = TRUE
         /\ store' = dropSession(SelfId)
         /\ teardowns' = Bump(teardowns)
         /\ pcA' = "body"
    ELSE /\ UNCHANGED <<once, ready, closed, store, teardowns>>
         /\ pcA' = "done"

\* session.disconnect up to store.dropSession, under session.once
DisconnectHead ==
    IF ~once
    THEN /\ once' = TRUE
         /\ ready' = FALSE
         /\ closed' = TRUE
         /\ store' = dropSession(SelfId)
         /\ teardowns' = Bump(teardowns)
         /\ pcA' = "body"
    ELSE /\ UNCHANGED <<once, ready, closed, store, teardowns>>
         /\ pcA' = "done"

\* serve, case <-session.closing: session.disconnect(); return
ActorClosing ==
    /\ Alive /\ pcA = "select"
    /\ \/ /\ closingCnt > 0
          /\ closingCnt' = closingCnt - 1
          /\ UNCHANGED <<pcL, todoL, triggers>>
       \/ /\ closingCnt = 0
          /\ ListenerOffersClosing
          /\ closingCnt' = closingCnt
          /\ ListenerAdvance
          /\ triggers' = IF StartsClose(Tail(todoL)) THEN Bump(triggers) ELSE triggers
    /\ DisconnectHead
    /\ UNCHANGED <<subscriptions, request, response, broadcast, chClosed,
                   closingCap, connOpen, todoA, cur, thenL, panicked,
                   envVars, timeVars, fnVars, wire, natsVars, poolVars>>

\* session.disconnect from close(session.closing) to session.conn = nil
ActorDisconnectBody ==
    /\ Alive /\ pcA = "body"
    /\ chClosed' = TRUE
    /\ connOpen' = FALSE
    /\ pcA' = "done"
    /\ UNCHANGED <<store, ready, closed, subscriptions, request, response,
                   broadcast, closingCap, closingCnt, once, todoA, cur, pcL, todoL,
                   thenL, panicked, teardowns, triggers, envVars, timeVars,
                   fnVars, wire, natsVars, poolVars>>

\* serve blocked in a channel send of session.normal, session.error or
\* session.close
ActorSend ==
    /\ Alive /\ pcA = "send"
    /\ LET o == Head(todoA)
       IN  IF chClosed
           THEN /\ panicked' = "send on closed channel"
                /\ UNCHANGED <<response, closingCnt, todoA, cur, pcA, triggers>>
           ELSE /\ \/ /\ o.op = "response"
                      /\ Len(response) < RespCap
                      /\ response' = Append(response, o.msg)
                      /\ UNCHANGED closingCnt
                   \/ /\ o.op = "closing"
                      /\ closingCnt < closingCap
                      /\ closingCnt' = closingCnt + 1
                      /\ UNCHANGED response
                /\ ActorAdvance
                /\ triggers' = IF StartsClose(Tail(todoA)) THEN Bump(triggers) ELSE triggers
                /\ UNCHANGED panicked
    /\ UNCHANGED <<store, ready, closed, subscriptions, request, broadcast,
                   chClosed, closingCap, connOpen, once, pcL, todoL, thenL,
                   teardowns, envVars, timeVars, fnVars, wire, natsVars, poolVars>>

(***************************************************************************)
(* The listening goroutine (Ingress Listener).                             *)
(***************************************************************************)
\* listening leaves an iteration with the channel sends `todo` still to
\* perform and then continues at `next`
ListenerDo(todo, next) ==
    /\ todoL' = todo
    /\ thenL' = next
    /\ pcL' = IF todo = << >> THEN next ELSE "send"
    /\ triggers' = IF StartsClose(todo) THEN Bump(triggers) ELSE triggers

\* listening, select { case <-session.closing: return; default: ... }
ListenerTop ==
    /\ Alive /\ pcL = "top"
    /\ IF chClosed
       THEN /\ pcL' = "done"
            /\ UNCHANGED <<closingCnt, todoA, cur, pcA, triggers>>
       ELSE IF closingCnt > 0
       THEN /\ pcL' = "done"
            /\ closingCnt' = closingCnt - 1
            /\ UNCHANGED <<todoA, cur, pcA, triggers>>
       ELSE IF ActorOffersClosing
       THEN /\ pcL' = "done"
            /\ ActorAdvance
            /\ triggers' = IF StartsClose(Tail(todoA)) THEN Bump(triggers) ELSE triggers
            /\ UNCHANGED closingCnt
       ELSE /\ pcL' = "read"
            /\ UNCHANGED <<closingCnt, todoA, cur, pcA, triggers>>
    /\ UNCHANGED <<store, ready, closed, subscriptions, request, response,
                   broadcast, chClosed, closingCap, connOpen, once, todoL, thenL,
                   panicked, teardowns, envVars, timeVars, fnVars, wire, natsVars, poolVars>>

\* the admission checks as they would be without the readiness check
AdmitUnready(req) ==
    IF ~verifySession(req.id)
    THEN ListenerDo(<<SendResponse(ErrorResponse("invalid session id")),
                      SendClosing("invalid session id")>>, "done")
    ELSE IF closed
    THEN ListenerDo(<<SendResponse(ErrorResponse("connect closed"))>>, "done")
    ELSE IF req.method = PING
    THEN ListenerDo(<<SendRequest(req)>>, "top")
    ELSE IF req.params = NilParams
    THEN ListenerDo(<<SendResponse(ErrorResponse("params cannot be empty."))>>, "top")
    ELSE ListenerDo(<<SendRequest(req)>>, "top")

\* listening, the admission checks on a decoded request
Admit(req) ==
    IF ~verifySession(req.id)
    THEN ListenerDo(<<SendResponse(ErrorResponse("invalid session id")),
                      SendClosing("invalid session id")>>, "done")
    ELSE IF closed
    THEN ListenerDo(<<SendResponse(ErrorResponse("connect closed"))>>, "done")
    ELSE IF req.method = PING
    THEN ListenerDo(<<SendRequest(req)>>, "top")
    ELSE IF ~ready
    THEN ListenerDo(<<SendResponse(ErrorResponse("connect not ready"))>>, "top")
    ELSE IF req.params = NilParams
    THEN ListenerDo(<<SendResponse(ErrorResponse("params cannot be empty."))>>, "top")
    ELSE ListenerDo(<<SendRequest(req)>>, "top")

\* listening, session.conn.ReadJSON returns a request sent by the client
ListenerRead(sendable, budget) ==
    /\ Alive /\ pcL = "read"
    /\ connOpen
    /\ frames < budget
    /\ frames' = frames + 1
    /\ \E req \in sendable : Admit(req)
    /\ UNCHANGED <<store, ready, closed, subscriptions, request, response,
                   broadcast, chClosed, closingCap, closingCnt, connOpen, once,
                   pcA, todoA, cur, panicked, teardowns, events, timeVars,
                   fnVars, wire, natsVars, poolVars>>

\* listening, the branch taken when session.conn.ReadJSON returns err
OnReadError(err) ==
    IF isCloseError(err) \in {CloseNormalClosure, CloseNoStatusReceived}
    THEN ListenerDo(<<SendClosing("closure")>>, "done")
    ELSE ListenerDo(<<SendResponse(ErrorResponse("read message error")),
                      SendClosing("read message error")>>, "done")

\* listening, session.conn.ReadJSON fails: the peer closed or broke the
\* connection, or teardown released it. A read that was blocked when teardown
\* closed the connection returns an error; one that starts after teardown has
\* set session.conn to nil dereferences nil.
ListenerReadError ==
    /\ Alive /\ pcL = "read"
    /\ \/ /\ \E err \in (IF connOpen THEN ReadErrors ELSE {LocalCloseError}) :
                OnReadError(err)
          /\ UNCHANGED panicked
       \/ /\ ~connOpen
          /\ panicked' = "nil pointer dereference"
          /\ UNCHANGED <<todoL, thenL, pcL, triggers>>
    /\ UNCHANGED <<store, ready, closed, subscriptions, request, response,
                   broadcast, chClosed, closingCap, closingCnt, connOpen, once,
                   pcA, todoA, cur, teardowns, envVars, timeVars,
                   fnVars, wire, natsVars, poolVars>>

\* listening blocked in a channel send: session.error, session.close or
\* session.request <- request
ListenerSend ==
    /\ Alive /\ pcL = "send"
    /\ LET o == Head(todoL)
       IN  IF chClosed
           THEN /\ panicked' = "send on closed channel"
                /\ UNCHANGED <<request, response, closingCnt, todoL, pcL, triggers>>
           ELSE /\ \/ /\ o.op = "response"
                      /\ Len(response) < RespCap
                      /\ response' = Append(response, o.msg)
                      /\ UNCHANGED <<request, closingCnt>>
                   \/ /\ o.op = "request"
                      /\ Len(request) < ReqCap
                      /\ request' = Append(request, o.req)
                      /\ UNCHANGED <<response, closingCnt>>
                   \/ /\ o.op = "closing"
                      /\ closingCnt < closingCap
                      /\ closingCnt' = closingCnt + 1
                      /\ UNCHANGED <<request, response>>
                /\ ListenerAdvance
                /\ triggers' = IF StartsClose(Tail(todoL)) THEN Bump(triggers) ELSE triggers
                /\ UNCHANGED panicked
    /\ UNCHANGED <<store, ready, closed, subscriptions, broadcast, chClosed,
                   closingCap, connOpen, once, pcA, todoA, cur, thenL, teardowns,
                   envVars, timeVars, fnVars, wire, natsVars, poolVars>>

(***************************************************************************)
(* The environment: the Broadcast Station and the passing of time.         *)
(***************************************************************************)
\* the station pushes an event into the broadcast queue of a registered
\* session without blocking; an event that finds the queue full is dropped
Station(topics) ==
    /\ Alive /\ verifySession(SelfId) /\ ~chClosed
    /\ Len(broadcast) < BcCap
    /\ events < MaxEvents
    /\ events' = events + 1
    /\ \E t \in topics : broadcast' = Append(broadcast, t)
    /\ UNCHANGED <<store, ready, closed, subscriptions, request, response,
                   chClosed, closingCap, closingCnt, connOpen, once, pcA, todoA, cur,
                   pcL, todoL, thenL, panicked, teardowns, triggers, 
                   frames, timeVars, fnVars, wire, natsVars, poolVars>>

MaxAge == Heartbeat + 1
Age(n) == IF n < MaxAge THEN n + 1 ELSE MaxAge

\* serve waits in its select and only the timer can wake it
ActorIdle ==
    /\ pcA = "select"
    /\ request = << >> /\ response = << >> /\ broadcast = << >>
    /\ closingCnt = 0 /\ ~ListenerOffersClosing

\* one unit of time passes while serve waits in its select; a select with a
\* ready case, the fired timer included, does not wait on
Tick ==
    /\ Alive
    /\ ActorIdle
    /\ timer < Heartbeat
    /\ timer' = timer + 1
    /\ sincePing' = Age(sincePing)
    /\ UNCHANGED <<sessVars, envVars, fnVars, wire, natsVars, poolVars>>

(***************************************************************************)
(* The registry (pool) called from several goroutines at once. Each call   *)
(* takes pool.lk, touches pool.store and releases pool.lk; the access to   *)
(* the map has a beginning and an end so that two accesses can overlap.    *)
(***************************************************************************)
\* sync.RWMutex.RLock can proceed
CanRLock(l) == ~l.writer

\* sync.RWMutex.Lock taken although readers still hold the mutex
CanLockOverReaders(l) == ~l.writer

\* sync.RWMutex.Lock can proceed
CanLock(l) == ~l.writer /\ l.readers = 0

Procs == 1..NProcs
PoolIds == {SelfId, OtherId}
IdleCall == [op |-> "idle", id |-> "", pc |-> "idle", found |-> FALSE, seen |-> {}]
PoolOps == {"verify", "create", "drop"}
Writes(op) == op # "verify"
InFlight(c) == c.op = "verify" /\ c.pc # "idle"

\* a goroutine calls verifySession(id) or dropSession(id), or createSession,
\* whose id is drawn before the mutex is taken
PoolInvoke(p) ==
    /\ call[p].pc = "idle"
    /\ \E op \in PoolOps, id \in PoolIds :
          call' = [call EXCEPT ![p] = [op |-> op, id |-> id, pc |-> "lock",
                                       found |-> FALSE, seen |-> {id \in store}]]
    /\ UNCHANGED <<lk, inMap, poolFault, sessVars, envVars, timeVars, fnVars, wire, natsVars>>

\* pool.lk.RLock() in verifySession, pool.lk.Lock() in the other two
PoolLock(p) ==
    /\ call[p].pc = "lock"
    /\ IF Writes(call[p].op)
       THEN /\ CanLock(lk)
            /\ lk' = [lk EXCEPT !.writer = TRUE]
       ELSE /\ CanRLock(lk)
            /\ lk' = [lk EXCEPT !.readers = @ + 1]
    /\ call' = [call EXCEPT ![p].pc = "begin"]
    /\ UNCHANGED <<inMap, poolFault, sessVars, envVars, timeVars, fnVars, wire, natsVars>>

\* the access to pool.store begins; it is a fault when it overlaps another
\* access and one of the two writes the map
PoolBegin(p) ==
    /\ call[p].pc = "begin"
    /\ inMap' = inMap \cup {p}
    /\ poolFault' = (poolFault \/ \E q \in inMap :
                                    Writes(call[q].op) \/ Writes(call[p].op))
    /\ call' = [call EXCEPT ![p].pc = "end"]
    /\ UNCHANGED <<lk, sessVars, envVars, timeVars, fnVars, wire, natsVars>>

\* the access to pool.store ends: the lookup, the insertion or the deletion
\* takes effect; a lookup that overlapped a write may return anything
PoolEnd(p) ==
    /\ call[p].pc = "end"
    /\ inMap' = inMap \ {p}
    /\ LET c == call[p]
           st == CASE c.op = "create" -> createSession(c.id)
                   [] c.op = "drop" -> dropSession(c.id)
                   [] OTHER -> store
       IN  /\ store' = st
           /\ \E f \in (IF poolFault THEN BOOLEAN ELSE {verifySession(c.id)}) :
                 call' = [q \in Procs |->
                            IF q = p
                            THEN [c EXCEPT !.pc = "unlock",
                                           !.found = IF c.op = "verify" THEN f ELSE @]
                            ELSE IF InFlight(call[q])
                            THEN [call[q] EXCEPT !.seen = @ \cup {call[q].id \in st}]
                            ELSE call[q]]
    /\ UNCHANGED <<lk, poolFault, ready, closed, subscriptions, request,
                   response, broadcast, chClosed, closingCap, closingCnt,
                   connOpen, once, pcA, todoA, cur, pcL, todoL, thenL, panicked,
                   teardowns, triggers, envVars, timeVars, fnVars, wire, natsVars>>

\* pool.lk.RUnlock() or pool.lk.Unlock()
PoolUnlock(p) ==
    /\ call[p].pc = "unlock"
    /\ lk' = IF Writes(call[p].op)
             THEN [lk EXCEPT !.writer = FALSE]
             ELSE [lk EXCEPT !.readers = @ - 1]
    /\ call' = [call EXCEPT ![p].pc = "ret"]
    /\ UNCHANGED <<inMap, poolFault, sessVars, envVars, timeVars, fnVars, wire, natsVars>>

\* the call returns to its caller
PoolReturn(p) ==
    /\ call[p].pc = "ret"
    /\ call' = [call EXCEPT ![p] = IdleCall]
    /\ UNCHANGED <<lk, inMap, poolFault, sessVars, envVars, timeVars, fnVars, wire, natsVars>>

(***************************************************************************)
(* The nats connection wrapper (package nats, type conn), its methods      *)
(* called from several goroutines at once. A method takes conn.lock, runs  *)
(* its body and leaves by one of its return statements.                    *)
(***************************************************************************)
Clients == 1..NClients

\* nats.Status values Connect looks at
Statuses == {"CONNECTED", "CONNECTING", "RECONNECTING", "CLOSED"}

Readers == {"Publish", "Subscribe", "JetStreamPublish", "JetStreamSubscribe"}
Publishers == {"Publish", "JetStreamPublish"}
UsesJetStream == {"JetStreamPublish", "JetStreamSubscribe"}
NatsOps == {"Connect", "Disconnect"} \cup Readers

\* what the caller passes and what the nats library will answer: Connect
\* dials, a publisher marshals its message
NatsArgs(op) ==
    CASE op = "Connect" -> {"ok", "dial fails", "jetstream fails"}
      [] op \in Publishers -> {"ok", "invalid message"}
      [] OTHER -> {"ok"}

IdleNats ==
    [op |-> "idle", pc |-> "idle", arg |-> "ok", ret |-> "none",
     acted |-> FALSE, holds |-> "none", h |-> 0]

\* Connect as it would be if it dialled whatever the status
NeedsDialAlways(st) == TRUE

\* Connect, switch status: the default case
NeedsDial(st) == st \notin {"CONNECTED", "CONNECTING", "RECONNECTING"}

\* Connect: status := nats.CLOSED; if n.natsConn != nil { status = n.natsConn.Status() }
ConnStatus == IF natsConn = 0 THEN "CLOSED" ELSE status

\* the record of client c after the step, the other clients' records kept
NatsStep(c, rec) == ncall' = [ncall EXCEPT ![c] = rec]

\* a goroutine calls one of the methods of conn
NatsInvoke(c) ==
    /\ ncall[c].pc = "idle"
    /\ ncalls < MaxCalls
    /\ ncalls' = ncalls + 1
    /\ \E op \in NatsOps : \E a \in NatsArgs(op) :
          NatsStep(c, [IdleNats EXCEPT !.op = op, !.pc = "lock", !.arg = a])
    /\ UNCHANGED <<natsConn, natsJetStream, status, nlock, dials,
                   hubVars>>

\* n.lock.Lock() in Connect and Disconnect, n.lock.RLock() in the others
NatsLock(c) ==
    /\ ncall[c].pc = "lock"
    /\ IF ncall[c].op \in Readers
       THEN /\ CanRLock(nlock)
            /\ nlock' = [nlock EXCEPT !.readers = @ + 1]
            /\ NatsStep(c, [ncall[c] EXCEPT !.pc = "body", !.holds = "R"])
       ELSE /\ CanLock(nlock)
            /\ nlock' = [nlock EXCEPT !.writer = TRUE]
            /\ NatsStep(c, [ncall[c] EXCEPT !.pc = "body", !.holds = "W"])
    /\ UNCHANGED <<natsConn, natsJetStream, status, dials, ncalls,
                   hubVars>>

\* Connect from the status switch to the last error return
ConnectBody(c) ==
    LET k == ncall[c]
    IN  IF ~NeedsDial(ConnStatus)
        THEN /\ NatsStep(c, [k EXCEPT !.pc = "unlock", !.ret = "nil"])
             /\ UNCHANGED dials
        ELSE CASE k.arg = "dial fails" ->
                    /\ NatsStep(c, [k EXCEPT !.pc = "unlock", !.ret = "err"])
                    /\ UNCHANGED dials
               [] k.arg = "jetstream fails" ->
                    /\ dials' = dials + 1
                    /\ NatsStep(c, [k EXCEPT !.pc = "unlock", !.ret = "err"])
               [] OTHER ->
                    /\ dials' = dials + 1
                    /\ NatsStep(c, [k EXCEPT !.pc = "assign", !.ret = "nil",
                                             !.acted = TRUE, !.h = dials + 1])

\* Disconnect: Flush, Close and n.natsConn = nil when there is a connection
DisconnectBody(c) ==
    LET k == ncall[c]
    IN  IF natsConn # 0
        THEN /\ natsConn' = 0
             /\ NatsStep(c, [k EXCEPT !.pc = "assign", !.ret = "nil", !.acted = TRUE])
        ELSE /\ natsConn' = natsConn
             /\ NatsStep(c, [k EXCEPT !.pc = "unlock", !.ret = "nil"])

\* Publish, Subscribe, JetStreamPublish, JetStreamSubscribe after RLock: the
\* two early returns and the call of the nats library
ReaderBody(c) ==
    LET k == ncall[c]
    IN  CASE natsConn = 0 ->
               NatsStep(c, [k EXCEPT !.pc = "ret", !.ret = "ErrInvalidConnection"])
          [] natsConn # 0 /\ k.arg = "invalid message" ->
               NatsStep(c, [k EXCEPT !.pc = "ret", !.ret = "ErrInvalidMsg"])
          [] natsConn # 0 /\ k.arg = "ok" /\ k.op \in UsesJetStream /\ natsJetStream = 0 ->
               NatsStep(c, [k EXCEPT !.pc = "ret", !.ret = "nil pointer dereference"])
          [] OTHER ->
               NatsStep(c, [k EXCEPT !.pc = "unlock", !.ret = "lib", !.acted = TRUE])

\* the body of a method, up to its first assignment to a field of conn
NatsBody(c) ==
    /\ ncall[c].pc = "body"
    /\ CASE ncall[c].op = "Connect" ->
              /\ ConnectBody(c)
              /\ UNCHANGED <<natsConn, natsJetStream, status>>
         [] ncall[c].op = "Disconnect" ->
              /\ DisconnectBody(c)
              /\ UNCHANGED <<natsJetStream, status, dials>>
         [] OTHER ->
              /\ ReaderBody(c)
              /\ UNCHANGED <<natsConn, natsJetStream, status, dials>>
    /\ UNCHANGED <<nlock, ncalls,
                   hubVars>>

\* Connect: n.natsConn = natsConn, then n.natsJetStream = natsJetStream;
\* Disconnect: n.natsJetStream = nil
NatsAssign(c) ==
    /\ ncall[c].pc = "assign"
    /\ LET k == ncall[c]
       IN  IF k.op = "Connect"
           THEN IF natsConn # k.h
                THEN /\ natsConn' = k.h
                     /\ status' = "CONNECTED"
                     /\ UNCHANGED <<natsJetStream, ncall>>
                ELSE /\ natsJetStream' = k.h
                     /\ NatsStep(c, [k EXCEPT !.pc = "unlock"])
                     /\ UNCHANGED <<natsConn, status>>
           ELSE /\ natsJetStream' = 0
                /\ NatsStep(c, [k EXCEPT !.pc = "unlock"])
                /\ UNCHANGED <<natsConn, status>>
    /\ UNCHANGED <<nlock, dials, ncalls,
                   hubVars>>

\* n.lock.Unlock() or n.lock.RUnlock()
NatsUnlock(c) ==
    /\ ncall[c].pc = "unlock"
    /\ nlock' = IF ncall[c].holds = "W"
                THEN [nlock EXCEPT !.writer = FALSE]
                ELSE [nlock EXCEPT !.readers = @ - 1]
    /\ NatsStep(c, [ncall[c] EXCEPT !.pc = "ret", !.holds = "none"])
    /\ UNCHANGED <<natsConn, natsJetStream, status, dials, ncalls,
                   hubVars>>

\* the method returns to its caller
NatsReturn(c) ==
    /\ ncall[c].pc = "ret"
    /\ NatsStep(c, IdleNats)
    /\ UNCHANGED <<natsConn, natsJetStream, status, nlock, dials, ncalls,
                   hubVars>>

\* the nats library changes the status of the connection on its own: the
\* server goes away, the client reconnects or gives up
NatsStatusChange ==
    /\ natsConn # 0
    /\ \E st \in Statuses \ {status} : status' = st
    /\ UNCHANGED <<natsConn, natsJetStream, nlock, ncall, dials, ncalls,
                   hubVars>>

(***************************************************************************)
(* The session after construction, and the specifications.                 *)
(***************************************************************************)
\* the registry once this session and another one have been created
InitStore == store = {SelfId, OtherId}

InitSession ==
    /\ ready = FALSE
    /\ closed = FALSE
    /\ subscriptions = {}
    /\ request = << >>
    /\ response = << >>
    /\ broadcast = << >>
    /\ chClosed = FALSE
    /\ closingCap \in {0, ClosingCapMax}
    /\ closingCnt = 0
    /\ connOpen = TRUE
    /\ once = FALSE
    /\ pcA = "select"
    /\ todoA = << >>
    /\ cur = NoRequest
    /\ pcL = "top"
    /\ todoL = << >>
    /\ thenL = "top"
    /\ panicked = "none"
    /\ teardowns = 0
    /\ triggers = 0
    /\ frames = 0
    /\ events = 0

InitTime == timer = 0 /\ sincePing = MaxAge
InitWire == wire = << >>
InitFn == vPat = << >> /\ vTar = << >> /\ vRes = "idle"


InitPool ==
    /\ lk = [readers |-> 0, writer |-> FALSE]
    /\ call = [p \in Procs |-> IdleCall]
    /\ inMap = {}
    /\ poolFault = FALSE

\* NewConn: no connection yet, the zero value of the mutex
InitNats ==
    /\ natsConn = 0
    /\ natsJetStream = 0
    /\ status = "CLOSED"
    /\ nlock = [readers |-> 0, writer |-> FALSE]
    /\ ncall = [c \in Clients |-> IdleNats]
    /\ dials = 0
    /\ ncalls = 0

\* the requests a client sends: every method, params that are absent, that
\* do not decode and that do, ids that are registered and one that is not
Frames ==
    {Request(id, PING, NilParams) : id \in {SelfId, OtherId, GhostId}}
    \cup {Request(id, DISCONNECT, ListParams(<< >>)) : id \in {SelfId, OtherId}}
    \cup {Request(SelfId, m, NilParams) : m \in {SUBSCRIBE, DISCONNECT}}
    \cup {Request(SelfId, BROADCAST, ListParams(<< >>))}
    \cup {Request(SelfId, m, BadParams) : m \in {SUBSCRIBE, UNSUBSCRIBE}}
    \cup {Request(SelfId, m, ListParams(<<<<"a", "*">>>>)) : m \in {SUBSCRIBE, UNSUBSCRIBE}}

\* the requests of a client that pings and manages its subscriptions
SubFrames ==
    {Request(SelfId, PING, NilParams)}
    \cup {Request(SelfId, m, ListParams(l)) :
            m \in {SUBSCRIBE, UNSUBSCRIBE}, l \in ListsUpTo(MaxParams)}

Init == InitStore /\ InitSession /\ InitWire /\ InitTime /\ InitFn /\ InitPool /\ InitNats

Next ==
    \/ ActorTimeout(FALSE)
    \/ ActorRequest
    \/ ActorResponse
    \/ ActorBroadcast
    \/ ActorClosing
    \/ ActorDisconnectBody
    \/ ActorSend
    \/ ListenerTop
    \/ ListenerRead(Frames, MaxFrames)
    \/ ListenerReadError
    \/ ListenerSend
    \/ Station(Topics)

Spec == Init /\ [][Next]_vars

\* a session whose client stays connected and manages its subscriptions
NextSub ==
    \/ ActorTimeout(FALSE)
    \/ ActorRequest
    \/ ActorResponse
    \/ ActorBroadcast
    \/ ActorSend
    \/ ListenerTop
    \/ ListenerRead(SubFrames, MaxFrames)
    \/ ListenerSend
    \/ Station(Topics)

SpecSub == Init /\ [][NextSub]_vars

\* the same client sending more requests to a session no event reaches
NextTopics ==
    \/ ActorTimeout(FALSE)
    \/ ActorRequest
    \/ ActorResponse
    \/ ActorSend
    \/ ListenerTop
    \/ ListenerRead(SubFrames, MaxSubFrames)
    \/ ListenerSend

SpecTopics == Init /\ [][NextTopics]_vars

\* the requests of a client that pings and disconnects
LiveFrames == {Request(SelfId, m, ListParams(<< >>)) : m \in {PING, DISCONNECT}}

NextLive ==
    \/ ActorTimeout(FALSE)
    \/ ActorRequest
    \/ ActorResponse
    \/ ActorClosing
    \/ ActorDisconnectBody
    \/ ActorSend
    \/ ListenerTop
    \/ ListenerRead(LiveFrames, MaxFrames)
    \/ ListenerReadError
    \/ ListenerSend

\* The Go scheduler runs every goroutine that can run, and a select chooses at
\* random among its ready cases, so no ready case is passed over for ever.
\* Nothing obliges the client to send a request or to close the connection.
Fairness ==
    /\ SF_vars(ActorRequest)
    /\ SF_vars(ActorResponse)
    /\ SF_vars(ActorClosing)
    /\ WF_vars(ActorDisconnectBody)
    /\ WF_vars(ActorSend)
    /\ WF_vars(ListenerTop)
    /\ WF_vars(ListenerSend)

SpecLive == Init /\ [][NextLive]_vars /\ Fairness

\* the requests of a client that pings and then violates the protocol: an id
\* that is not registered, params that do not decode, no params at all
FatalFrames ==
    {Request(SelfId, PING, NilParams), Request(GhostId, PING, NilParams),
     Request(SelfId, SUBSCRIBE, NilParams)}
    \cup {Request(SelfId, m, BadParams) : m \in {SUBSCRIBE, UNSUBSCRIBE}}

NextFatal ==
    \/ ActorTimeout(FALSE)
    \/ ActorRequest
    \/ ActorResponse
    \/ ActorClosing
    \/ ActorDisconnectBody
    \/ ActorSend
    \/ ListenerTop
    \/ ListenerRead(FatalFrames, MaxFrames)
    \/ ListenerReadError
    \/ ListenerSend

SpecFatal == Init /\ [][NextFatal]_vars /\ Fairness

\* the requests of a client that pings and subscribes
TimedFrames ==
    {Request(SelfId, PING, NilParams),
     Request(SelfId, SUBSCRIBE, ListParams(<<<<"a", "*">>>>))}

\* a connected session with the passing of time counted in ticks
NextTimed ==
    \/ Tick
    \/ ActorTimeout(TRUE)
    \/ ActorRequest
    \/ ActorResponse
    \/ ActorBroadcast
    \/ ActorSend
    \/ ListenerTop
    \/ ListenerRead(TimedFrames, MaxFrames)
    \/ ListenerSend
    \/ Station(Topics)

SpecTimed == Init /\ [][NextTimed]_vars

(***************************************************************************)
(* The registry on its own, from `make(map[sessionID]struct{}, 0)`.        *)
(***************************************************************************)
InitRegistry ==
    /\ store = {}
    /\ InitSession /\ InitWire /\ InitTime /\ InitFn /\ InitPool /\ InitNats
    /\ closingCap = 0

NextPool ==
    \E p \in Procs :
        \/ PoolInvoke(p)
        \/ PoolLock(p)
        \/ PoolBegin(p)
        \/ PoolEnd(p)
        \/ PoolUnlock(p)
        \/ PoolReturn(p)

SpecPool == InitRegistry /\ [][NextPool]_vars

(***************************************************************************)
(* subject.verify applied to every pattern and topic of bounded length.    *)
(***************************************************************************)
Strings == StringsUpTo(MaxLen)

InitVerify ==
    /\ InitStore /\ InitSession /\ InitWire /\ InitTime /\ InitPool /\ InitNats
    /\ closingCap = 0
    /\ vPat \in Strings
    /\ vTar \in Strings
    /\ vRes = "idle"

ApplyVerify ==
    /\ vRes = "idle"
    /\ vRes' = IF verify(vPat, vTar) THEN "true" ELSE "false"
    /\ UNCHANGED <<vPat, vTar, sessVars, envVars, timeVars, poolVars, wire, natsVars>>

SpecVerify == InitVerify /\ [][ApplyVerify]_vars

(***************************************************************************)
(* The nats connection wrapper on its own, from NewConn.                   *)
(***************************************************************************)
NextNats ==
    \/ \E c \in Clients :
          \/ NatsInvoke(c)
          \/ NatsLock(c)
          \/ NatsBody(c)
          \/ NatsAssign(c)
          \/ NatsUnlock(c)
          \/ NatsReturn(c)
    \/ NatsStatusChange

InitConn == Init /\ closingCap = 0

SpecNats == InitConn /\ [][NextNats]_vars

(***************************************************************************)
(* Properties.                                                             *)
(***************************************************************************)
\* the first k characters of t
Take(t, k) == SubSeq(t, 1, k)

\* the matching rule as the specification words it
Matches(pattern, topic) ==
    \/ pattern = Star
    \/ pattern = topic
    \/ /\ Len(pattern) >= 1
       /\ pattern[Len(pattern)] = "*"
       /\ \E k \in 0..Len(topic) : pattern = Take(topic, k) \o Star

\* C9: subject.verify(pattern, topic) is true exactly when the pattern is "*",
\* or equals the topic, or ends with '*' and the topic starts with the pattern
\* minus that final '*'; a '*' in any other position is an ordinary character.
C9_VerifyMatchesRule ==
    vRes # "idle" =>
        /\ (vRes = "true") <=> Matches(vPat, vTar)
        /\ vPat = Star => vRes = "true"
        /\ vPat = vTar => vRes = "true"
        /\ (vPat = <<"a", "*">> /\ vTar = <<"a", "b">>) => vRes = "true"
        /\ (vPat = <<"a", "*">> /\ vTar = <<"b">>) => vRes = "false"
        /\ (vPat = <<"a">> /\ vTar = <<"a", "b">>) => vRes = "false"
        /\ (vPat = <<"*", "a">> /\ vTar = <<"b", "a">>) => vRes = "false"

\* C9 witness: a prefix pattern has matched a longer topic
C9_Witness ==
    /\ vRes = "true"
    /\ vPat = <<"a", "*">>
    /\ vTar = <<"a", "b", "*">>

TornDown == closed /\ ~verifySession(SelfId)

\* serve is the goroutine that takes the step, dequeuing a request
ActorDequeuesRequest ==
    pcA = "select" /\ request # << >> /\ request' = Tail(request)

\* serve is the goroutine that takes the step, dequeuing a broadcast event
ActorDequeuesEvent ==
    pcA = "select" /\ broadcast # << >> /\ broadcast' = Tail(broadcast)

\* a goroutine completes a send on the response channel
EnqueuesResponse == Len(response') > Len(response)

\* the elements of a list
Range(l) == {l[i] : i \in 1..Len(l)}

\* no goroutine can ever run the teardown body: serve is blocked in
\* session.close and listening is blocked there too or has returned
TeardownImpossible ==
    /\ teardowns = 0
    /\ pcA = "send" /\ StartsClose(todoA) /\ closingCnt = closingCap
    /\ \/ pcL = "done"
       \/ pcL = "send" /\ StartsClose(todoL)

\* C1: when teardown is triggered two or more times the teardown body runs
\* exactly once and no trigger faults on an already-closed channel.
C1_TeardownIdempotent ==
    triggers >= 2 =>
        /\ panicked = "none"
        /\ teardowns <= 1
        /\ ~TeardownImpossible

\* C2: once serve has dequeued a DISCONNECT request the session is eventually
\* torn down: closed is set and the registry no longer verifies its id.
C2_DisconnectTearsDown ==
    (pcA = "send" /\ cur.method = DISCONNECT) ~> TornDown

\* C3: once teardown has closed the queues nobody sends on them any more and
\* nobody uses the released connection: no goroutine panics on a closed
\* channel or on the nil connection, and the queues keep their contents.
C3_NoSendAfterClose ==
    /\ panicked = "none"
    /\ [][chClosed =>
            /\ panicked' = "none"
            /\ request' = request
            /\ response' = response
            /\ broadcast' = broadcast]_vars

\* C4: a dequeued broadcast event makes serve call session.normal exactly once
\* when the session is ready and some pattern matches, and not at all
\* otherwise; every send serve completes enqueues the one pending response.
C4_AtMostOneBroadcast ==
    [][/\ ActorDequeuesEvent =>
            LET e == Head(broadcast)
            IN  todoA' =
                  IF ready /\ \E s \in subscriptions : Matches(s, e)
                  THEN <<SendResponse(NormalResponse(BROADCAST, {}, e))>>
                  ELSE << >>
       /\ (EnqueuesResponse /\ pcA = "send" /\ todoA' # todoA) =>
            /\ response' = Append(response, Head(todoA).msg)
            /\ todoA' = Tail(todoA)]_vars

\* C4 witness: two overlapping patterns match the event and one BROADCAST
\* response is pending
C4_Witness ==
    /\ subscriptions = Patterns
    /\ pcA = "send"
    /\ todoA = <<SendResponse(NormalResponse(BROADCAST, {}, <<"a", "b">>))>>

\* C5: ready is false at creation and becomes true only in the step in which
\* serve handles a PING request of a session that is not closed.
C5_ReadyOnlyByPing ==
    /\ ready = FALSE
    /\ [][(~ready /\ ready') =>
            /\ ActorDequeuesRequest
            /\ Head(request).method = PING
            /\ ~closed]_vars

\* C5 witness: a PING has made the session ready
C5_Witness == ready /\ cur.method = PING /\ pcA = "send"

\* C6: a ready session that handles no further PING stops being ready once
\* the heartbeat interval has elapsed since its last PING, whatever other
\* events the loop handles in between.
C6_OnlyPingPostponesTimeout ==
    ready => sincePing <= Heartbeat

\* C7: a non-PING request with a registered id, received while the session is
\* neither ready nor closed, makes listening send exactly one error response,
\* forward nothing, trigger no close and go on listening; subscriptions,
\* closed and the registry are untouched.
C7_NotReadyIsRecoverable ==
    [][/\ (pcL = "read" /\ connOpen /\ frames' # frames /\ ~ready /\ ~closed) =>
            \A f \in Frames :
               (f.method # PING /\ verifySession(f.id) /\ Admit(f))
               => /\ todoL' = <<SendResponse(ErrorResponse("connect not ready"))>>
                  /\ thenL' = "top"
                  /\ triggers' = triggers
                  /\ UNCHANGED <<request, response, subscriptions, closed, store>>
       /\ (/\ pcL = "send" /\ ~chClosed /\ pcL' # pcL
           /\ todoL = <<SendResponse(ErrorResponse("connect not ready"))>>)
            => /\ response' = Append(response, ErrorResponse("connect not ready"))
               /\ pcL' = "top"
               /\ UNCHANGED <<request, closingCnt, triggers, subscriptions,
                              closed, store>>]_vars

\* C7 witness: the NotReady error is queued and listening is back at its select
C7_Witness ==
    /\ pcL = "top" /\ ~ready /\ ~closed
    /\ response = <<ErrorResponse("connect not ready")>>
    /\ request = << >>

\* C8: SUBSCRIBE adds its subjects and UNSUBSCRIBE removes them, so a pattern
\* already present (or already absent) changes nothing, and serve answers
\* each decoded request with one normal response carrying the updated set.
C8_SubscribeIdempotent ==
    [][/\ (ActorDequeuesRequest =>
          LET r == Head(request)
              S == Range(r.params.list)
          IN  /\ (r.method = SUBSCRIBE /\ Decodes(r.params)) =>
                    /\ subscriptions' = subscriptions \cup S
                    /\ S \subseteq subscriptions => subscriptions' = subscriptions
                    /\ todoA' = <<SendResponse(
                                    NormalResponse(SUBSCRIBE, subscriptions', NoEvent))>>
              /\ (r.method = UNSUBSCRIBE /\ Decodes(r.params)) =>
                    /\ subscriptions' = subscriptions \ S
                    /\ S \cap subscriptions = {} => subscriptions' = subscriptions
                    /\ todoA' = <<SendResponse(
                                    NormalResponse(UNSUBSCRIBE, subscriptions', NoEvent))>>)
       /\ (/\ pcA = "send" /\ todoA' # todoA /\ ~chClosed
           /\ cur.method \in {SUBSCRIBE, UNSUBSCRIBE} /\ Decodes(cur.params))
            => /\ response' =
                    Append(response, NormalResponse(cur.method, subscriptions, NoEvent))
               /\ pcA' = "select"]_vars

\* C8 witness: the answer to a first SUBSCRIBE, carrying the one-member set, is
\* still queued while a second SUBSCRIBE of the same pattern is being answered
\* with the same one-member set
C8_Witness ==
    /\ subscriptions = {<<"a", "*">>}
    /\ response = <<NormalResponse(SUBSCRIBE, {<<"a", "*">>}, NoEvent)>>
    /\ pcA = "send"
    /\ cur = Request(SelfId, SUBSCRIBE, ListParams(<<<<"a", "*">>>>))
    /\ todoA = <<SendResponse(NormalResponse(SUBSCRIBE, {<<"a", "*">>}, NoEvent))>>

\* goroutine p takes a step of its registry call
Steps(p) == call'[p].pc # call[p].pc

\* goroutine p ends its access to pool.store
Accesses(p) == call[p].pc = "end" /\ Steps(p)

\* C10: concurrent createSession, verifySession and dropSession calls take
\* effect one at a time: no access to the store overlaps a write; the store
\* changes only by the insertion of a create or the deletion of a drop, so it
\* holds the ids created and not dropped since; a lookup answers with the
\* membership of its id at the moment of its access and changes nothing; a
\* drop of an absent id changes nothing.
C10_PoolCallsAtomic ==
    /\ ~poolFault
    /\ [][/\ ~poolFault'
          /\ store' # store => \E p \in Procs : Writes(call[p].op) /\ Accesses(p)
          /\ \A p \in Procs :
               LET c == call[p]
               IN  /\ (Accesses(p) /\ c.op = "create") => store' = store \cup {c.id}
                   /\ (Accesses(p) /\ c.op = "drop") => store' = store \ {c.id}
                   /\ (Accesses(p) /\ c.op = "verify") =>
                         call'[p].found = (c.id \in store)
                   /\ (Steps(p) /\ c.op = "verify") => store' = store
                   /\ (Steps(p) /\ c.op = "drop" /\ c.id \notin store) =>
                         store' = store
                   /\ (c.op = "verify" /\ call'[p].pc = "ret") =>
                         call'[p].found \in call'[p].seen]_vars

\* C10 witness: a lookup has returned true although a concurrent drop of the
\* same id, which took the mutex after it, has removed the id since
C10_Witness ==
    \E p, q \in Procs :
        /\ call[p].op = "verify" /\ call[p].pc = "ret" /\ call[p].found
        /\ call[q].op = "drop" /\ call[q].id = call[p].id /\ call[q].pc = "unlock"
        /\ call[p].id \notin store
        /\ call[p].seen = BOOLEAN

\* serve is the goroutine that takes the step, dequeuing a response
ActorDequeuesResponse ==
    pcA = "select" /\ response # << >> /\ response' = Tail(response)

\* both goroutines wait with nothing queued and nothing left to send
Quiet ==
    /\ pcA = "select" /\ pcL = "top"
    /\ request = << >> /\ response = << >> /\ broadcast = << >>
    /\ todoA = << >> /\ todoL = << >> /\ closingCnt = 0

\* C12: serve hands a dequeued response to the transport exactly when ready is
\* true at the dequeue; a response dequeued while ready is false is dropped:
\* it leaves the queue, nothing is queued or sent in its place, and the
\* transport output grows at no other step.
C12_WriteOnlyIfReady ==
    [][/\ ActorDequeuesResponse =>
            /\ wire' = IF ready THEN Append(wire, Head(response)) ELSE wire
            /\ ~ready => /\ pcA' = "select" /\ todoA' = todoA
                         /\ request' = request /\ broadcast' = broadcast
       /\ wire' # wire => ActorDequeuesResponse /\ ready]_vars

\* C12 witness: two requests have each been answered, the first answer (the
\* pong) was written and the second was dequeued after readiness was revoked
\* and is gone
C12_Witness ==
    /\ frames = 2 /\ Quiet /\ ~ready /\ ~closed
    /\ wire = <<NormalResponse(PING, {}, NoEvent)>>

\* a list of pending sends holds a call of session.close
ContainsClose(todo) == \E i \in 1..Len(todo) : todo[i].op = "closing"

\* a step in which no channel is received from or sent on and neither the
\* listener nor the environment moves: serve's heartbeat case or no step at all
HeartbeatStep ==
    /\ pcA = "select"
    /\ UNCHANGED <<request, response, broadcast, closingCnt, pcL, todoL, thenL,
                   frames, events, panicked>>

\* C13: the heartbeat case only turns ready from true to false and starts no
\* teardown. A call of session.close comes from serve handling a DISCONNECT or
\* a SUBSCRIBE/UNSUBSCRIBE whose params do not decode, or from listening after
\* a read error or a request with an unregistered id; the closing signal grows
\* only by such a call, and teardown starts only by receiving it.
C13_TimeoutIsSoft ==
    [][/\ HeartbeatStep =>
            /\ ready' # ready => (ready /\ ~ready')
            /\ UNCHANGED <<closed, store, subscriptions, connOpen, chClosed, once,
                           teardowns, triggers, pcA, todoA, wire>>
       /\ (ContainsClose(todoA') /\ ~ContainsClose(todoA)) =>
            /\ ActorDequeuesRequest
            /\ LET r == Head(request)
               IN  \/ r.method = DISCONNECT
                   \/ r.method \in {SUBSCRIBE, UNSUBSCRIBE} /\ ~Decodes(r.params)
       /\ (ContainsClose(todoL') /\ ~ContainsClose(todoL)) =>
            /\ pcL = "read"
            /\ \/ frames' = frames
               \/ \E f \in Frames : ~verifySession(f.id) /\ Admit(f)
       /\ closingCnt' > closingCnt =>
            \/ pcA = "send" /\ StartsClose(todoA) /\ todoA' = Tail(todoA)
            \/ pcL = "send" /\ StartsClose(todoL) /\ todoL' = Tail(todoL)
       /\ (~once /\ once') => (closingCnt > 0 \/ ListenerOffersClosing)]_vars

\* C13 witness: a PING made the session ready and a missed heartbeat has
\* revoked it; the session is open, registered and not torn down
C13_Witness ==
    /\ sincePing = 0 /\ ~ready
    /\ ~closed /\ ~once /\ teardowns = 0 /\ triggers = 0
    /\ connOpen /\ ~chClosed /\ verifySession(SelfId)

\* serve is blocked in a send that it alone could receive: on the full
\* response queue, which only serve's select reads, or on the closing signal
\* once listening has returned
ActorStuck ==
    /\ Alive /\ pcA = "send" /\ ~chClosed
    /\ \/ Head(todoA).op = "response" /\ Len(response) = RespCap
       \/ Head(todoA).op = "closing" /\ closingCnt = closingCap /\ pcL = "done"

\* C14: serve blocks only in its select: while it handles an event it is never
\* stuck in a send on its own response queue or closing signal.
C14_ActorNeverSelfBlocks == ~ActorStuck

\* the messages of the error responses for recoverable conditions
RecoverableErrors ==
    {"connect not ready", "params cannot be empty.", "invalid method"}

\* C15: an error response queued for a recoverable condition reaches the
\* client: as the transport output grows only when serve dequeues a response,
\* serve hands every such response to the transport when it dequeues it, and
\* the session is neither closed nor deregistered by that step.
C15_RecoverableErrorIsWritten ==
    [][(ActorDequeuesResponse /\ Head(response).message \in RecoverableErrors) =>
            /\ wire' = Append(wire, Head(response))
            /\ ~closed' /\ verifySession(SelfId)']_vars

\* listening has met a request with an unregistered id and is about to call
\* session.error and session.close
UnknownIdPending ==
    /\ pcL = "send" /\ thenL = "done"
    /\ todoL = <<SendResponse(ErrorResponse("invalid session id")),
                 SendClosing("invalid session id")>>

\* C16: a request whose id the registry does not verify is not forwarded;
\* listening answers it with one error response, calls session.close and
\* returns, and the session is eventually torn down.
C16_UnknownIdTearsDown ==
    /\ [][(pcL = "read" /\ frames' # frames) =>
            \A f \in FatalFrames :
               (~verifySession(f.id) /\ Admit(f))
               => UnknownIdPending' /\ request' = request]_vars
    /\ (UnknownIdPending ~> TornDown)

\* serve has met params that do not decode and is about to call
\* session.error and session.close
DecodeFailurePending ==
    /\ pcA = "send"
    /\ todoA = <<SendResponse(ErrorResponse("decode")), SendClosing("decode")>>

\* C17: when the params of a SUBSCRIBE or UNSUBSCRIBE request do not decode,
\* serve answers with one error response, leaves the subscription set as it
\* was, and the session is eventually torn down.
C17_DecodeFailureTearsDown ==
    /\ [][(/\ ActorDequeuesRequest
           /\ Head(request).method \in {SUBSCRIBE, UNSUBSCRIBE}
           /\ ~Decodes(Head(request).params))
          => DecodeFailurePending' /\ subscriptions' = subscriptions]_vars
    /\ (DecodeFailurePending ~> TornDown)

Methods == {PING, SUBSCRIBE, UNSUBSCRIBE, DISCONNECT}

\* serve is answering a request whose method it does not know
AnswersUnknownMethod ==
    pcA = "send" /\ cur # NoRequest /\ cur.method \notin Methods

\* C18: a request with a method other than PING, SUBSCRIBE, UNSUBSCRIBE and
\* DISCONNECT (BROADCAST included) that serve dequeues produces exactly one
\* error response and changes neither ready, closed, the subscription set nor
\* the registry; it starts no teardown.
C18_UnknownMethodIsRecoverable ==
    [][/\ (ActorDequeuesRequest /\ Head(request).method \notin Methods) =>
            /\ AnswersUnknownMethod'
            /\ todoA' = <<SendResponse(ErrorResponse("invalid method"))>>
            /\ response' = response
       /\ (AnswersUnknownMethod /\ pcA' # pcA) =>
            /\ pcA' = "select" /\ todoA' = << >>
            /\ response' = Append(response, ErrorResponse("invalid method"))
       /\ ((ActorDequeuesRequest /\ Head(request).method \notin Methods)
           \/ (AnswersUnknownMethod /\ pcA' # pcA)) =>
            /\ UNCHANGED <<ready, closed, subscriptions, store>>
            /\ UNCHANGED <<triggers, teardowns, closingCnt, once, chClosed, connOpen>>
            /\ Alive']_vars

C18_Witness ==
    /\ pcA = "select" /\ cur = NoRequest
    /\ response = <<ErrorResponse("invalid method")>>
    /\ ready /\ ~closed /\ verifySession(SelfId)
    /\ triggers = 0 /\ teardowns = 0

\* serve has returned from session.disconnect
TeardownCompleted == closed /\ pcA = "done"

\* the state session.disconnect leaves behind
AllClosed == ~verifySession(SelfId) /\ chClosed /\ ~connOpen

\* C19: closed goes from false to true at most once and never back; from the
\* step that sets it, ready is false and nothing is written to the transport;
\* when the teardown body has completed, the id is deregistered and the
\* queues and the transport are closed.
C19_ClosedIsFinal ==
    [][/\ closed => closed'
       /\ closed' # closed => teardowns = 0 /\ teardowns' = 1 /\ pcA = "select"
       /\ closed' => ~ready'
       /\ closed => wire' = wire
       /\ TeardownCompleted' => AllClosed']_vars

C19_Witness ==
    /\ TeardownCompleted /\ AllClosed /\ ~ready /\ teardowns = 1
    /\ wire = <<NormalResponse(PING, {}, NoEvent)>>
    /\ request # << >> /\ Head(request).method = PING

\* what listening has to send after a failed read, by the class of the error
ReadErrorSends(err) ==
    IF isCloseError(err) \in {CloseNormalClosure, CloseNoStatusReceived}
    THEN <<SendClosing("closure")>>
    ELSE <<SendResponse(ErrorResponse("read message error")),
           SendClosing("read message error")>>

\* listening is inside the branch for a failed read
HandlesReadError ==
    /\ pcL = "send" /\ thenL = "done"
    /\ Head(todoL).msg.message \in {"read message error", "closure"}

\* the error response of a failed read can never be enqueued: the queue is
\* full and serve, its only receiver, is itself sending on it
ReadErrorStuck ==
    /\ HandlesReadError /\ Head(todoL).op = "response"
    /\ Len(response) = RespCap
    /\ ActorStuck /\ Head(todoA).op = "response"

\* C20: on any read error listening triggers close and stops; a normal
\* closure (CloseNormalClosure, CloseNoStatusReceived) enqueues no error
\* response, every other error enqueues exactly one before close is triggered.
C20_ReadErrorCloses ==
    [][/\ (pcL = "read" /\ pcL' = "send" /\ frames' = frames) =>
            /\ \E err \in ReadErrors \cup {LocalCloseError} :
                  todoL' = ReadErrorSends(err)
            /\ HandlesReadError'
            /\ response' = response
       /\ (HandlesReadError /\ pcL' = pcL /\ todoL' # todoL) =>
            /\ Head(todoL).op = "response"
            /\ response' = Append(response, ErrorResponse("read message error"))
            /\ todoL' = <<SendClosing("read message error")>>
       /\ (HandlesReadError /\ pcL' # pcL) =>
            /\ Head(todoL).op = "closing" /\ pcL' = "done"
            /\ response' = response
       /\ HandlesReadError => panicked' = "none"
       /\ ~ReadErrorStuck]_vars

\* C21: the subscription set changes only in states where ready is true: a
\* SUBSCRIBE or UNSUBSCRIBE admitted while the session was ready is not
\* applied after a heartbeat timeout has cleared ready in between.
C21_SubscriptionsOnlyWhenReady ==
    [][subscriptions' # subscriptions => ready]_vars

\* no method of conn is running
NatsIdle == \A c \in Clients : ncall[c].pc = "idle"

\* C22: Publish, Subscribe, JetStreamPublish and JetStreamSubscribe have
\* released the read lock they took when they return, on every path, so that
\* conn.lock is free for a later Connect or Disconnect once they have returned.
C22_ReadLockReleased ==
    /\ \A c \in Clients :
          (ncall[c].op \in Readers /\ ncall[c].pc = "ret")
          => ncall[c].holds = "none"
    /\ NatsIdle => CanLock(nlock)

\* the requests in session.request all carry this session's id
OwnRequestsOnly(q) == \A i \in 1..Len(q) : q[i].id = SelfId

\* C23: a request is forwarded to the session's request queue only when its
\* id is the session's own; a request that carries the id of another live
\* session is not processed by serve: it changes neither ready nor the
\* subscription set and does not close the session.
C23_OnlyOwnIdForwarded ==
    [][/\ OwnRequestsOnly(request')
       /\ (ActorDequeuesRequest /\ Head(request).id # SelfId) =>
             /\ todoA' = << >>
             /\ UNCHANGED <<ready, subscriptions, triggers>>]_vars

\* client c leaves the body of method op in this step
LeavesBody(c, op) ==
    ncall[c].op = op /\ ncall[c].pc = "body" /\ ncall'[c].pc # "body"

\* the statuses in which the connection is up or coming up
Connected == {"CONNECTED", "CONNECTING", "RECONNECTING"}

ConnFieldsKept == natsConn' = natsConn /\ natsJetStream' = natsJetStream

\* C24: Connect on a connection whose status is CONNECTED, CONNECTING or
\* RECONNECTING changes nothing; a Connect that fails keeps natsConn and
\* natsJetStream and returns the error with the lock released; natsConn and
\* natsJetStream are both nil or both set; Disconnect leaves both nil, a
\* Disconnect without a connection does nothing, and Publish or Subscribe
\* without a connection return ErrInvalidConnection and reach no nats call.
C24_ConnectDisconnectState ==
    [][\A c \in Clients :
        /\ (LeavesBody(c, "Connect") /\ natsConn # 0 /\ status \in Connected) =>
              /\ ConnFieldsKept /\ dials' = dials
              /\ ncall'[c].pc = "unlock" /\ ncall'[c].ret = "nil"
        /\ (LeavesBody(c, "Connect") /\ ncall'[c].ret = "err") =>
              /\ ConnFieldsKept
              /\ ncall'[c].pc = "unlock"
        /\ (ncall[c].op \in {"Connect", "Disconnect"}
            /\ ncall[c].pc # "ret" /\ ncall'[c].pc = "ret") =>
              /\ ncall'[c].holds = "none" /\ ~nlock'.writer
        /\ ~nlock.writer => natsConn = natsJetStream
        /\ (ncall[c].op = "Disconnect" /\ ncall[c].pc = "unlock") =>
              natsConn = 0 /\ natsJetStream = 0
        /\ (LeavesBody(c, "Disconnect") /\ natsConn = 0) =>
              /\ ConnFieldsKept
              /\ ~ncall'[c].acted /\ ncall'[c].pc = "unlock"
        /\ (\E op \in Readers : LeavesBody(c, op) /\ natsConn = 0) =>
              /\ ncall'[c].ret = "ErrInvalidConnection"
              /\ ~ncall'[c].acted]_vars

C24_Witness ==
    /\ dials = 1 /\ natsConn = 0 /\ natsJetStream = 0 /\ ~nlock.writer
    /\ \E c \in Clients :
          /\ ncall[c].op \in {"Publish", "Subscribe"} /\ ncall[c].pc = "ret"
          /\ ncall[c].ret = "ErrInvalidConnection" /\ ~ncall[c].acted

====
